---- MODULE Spec2Model ----
(***************************************************************************)
(* A model of datafinder.DataFinder (src/src/datafinder/datafinder.py):    *)
(* the registry state (root, folders), the operations set_root,            *)
(* add_folders and query, and the pathlib / re / pandas primitives they    *)
(* call, over a small fixed file system.  What print() writes (the         *)
(* warnings of add_folders, the narration of query) is not part of the     *)
(* state; an exception raised while computing a printed value is.          *)
(***************************************************************************)
EXTENDS Integers, Sequences, FiniteSets, TLC

VARIABLES root, folders, call, ret

vars == <<root, folders, call, ret>>

(***************************************************************************)
(* Bounds of the model.                                                    *)
(***************************************************************************)
\* longest folder list the registry is allowed to grow to
MaxFolders == 2
\* longest `folders` argument of add_folders
MaxPaths == 2
\* longest list of candidate roots passed to set_root
MaxRoots == 2
\* most entries of a regex_info mapping
MaxMap == 2

(***************************************************************************)
(* Strings.  A name is a TLA+ string; Spell gives its characters, so that  *)
(* matching, suffixes and ordering are computed on the characters.         *)
(***************************************************************************)
Spell ==
  "d" :> <<"d">> @@ "s" :> <<"s">> @@ "o" :> <<"o">> @@ "x" :> <<"x">> @@
  "A" :> <<"A">> @@ "AB.t" :> <<"A", "B", ".", "t">> @@ "B" :> <<"B">>

\* code points, the order Python compares str by
Ord ==
  "." :> 46 @@ "A" :> 65 @@ "B" :> 66 @@ "d" :> 100 @@
  "o" :> 111 @@ "s" :> 115 @@ "t" :> 116 @@ "x" :> 120

\* s < t for two Python strings given by their characters
RECURSIVE StrLess(_, _)
StrLess(s, t) ==
  IF t = <<>> THEN FALSE
  ELSE IF s = <<>> THEN TRUE
  ELSE IF Ord[Head(s)] # Ord[Head(t)] THEN Ord[Head(s)] < Ord[Head(t)]
  ELSE StrLess(Tail(s), Tail(t))

IsPrefix(p, s) == Len(p) <= Len(s) /\ SubSeq(s, 1, Len(p)) = p

(***************************************************************************)
(* pathlib.  A path is its anchor (absolute or not) and its parts; the     *)
(* parts of an absolute path leave out the leading "/".                    *)
(***************************************************************************)
Abs(parts) == [abs |-> TRUE, parts |-> parts]
Rel(parts) == [abs |-> FALSE, parts |-> parts]

\* the file system the process runs on: its working directory, its
\* directories, and the children of each directory in the order scandir
\* lists them
Cwd == <<"d">>

Listing ==
  <<>> :> <<"d", "o">> @@
  <<"d">> :> <<"s">> @@
  <<"d", "s">> :> <<"AB.t", "A", "B">> @@
  <<"d", "s", "A">> :> <<"AB.t">> @@
  <<"o">> :> <<"B">>

Dirs == DOMAIN Listing

\* where the operating system looks a path up
Resolve(p) == IF p.abs THEN p.parts ELSE Cwd \o p.parts

is_absolute(p) == p.abs

is_dir(p) == Resolve(p) \in Dirs

\* a / b
Join(a, b) == IF b.abs THEN b ELSE [abs |-> a.abs, parts |-> a.parts \o b.parts]

\* p.relative_to(base) succeeds
CanRelate(p, base) == p.abs = base.abs /\ IsPrefix(base.parts, p.parts)

\* the parts of p.relative_to(base)
RelativeParts(p, base) == SubSeq(p.parts, Len(base.parts) + 1, Len(p.parts))

\* p.name
PathName(p) == p.parts[Len(p.parts)]

\* index of the last "." of s, 0 when there is none (str.rfind, 1-based)
RECURSIVE RFind(_, _)
RFind(s, i) == IF i = 0 THEN 0 ELSE IF s[i] = "." THEN i ELSE RFind(s, i - 1)

\* p.suffix of a name given by its characters
SuffixOf(s) ==
  LET i == RFind(s, Len(s))
  IN IF 1 < i /\ i < Len(s) THEN SubSeq(s, i, Len(s)) ELSE <<>>

(***************************************************************************)
(* The stored root.  set_root keeps either one path or, for a list         *)
(* argument, whatever line 41 assigns.                                     *)
(***************************************************************************)
OnePath(p) == [kind |-> "path", path |-> p]
PathList(ps) == [kind |-> "list", items |-> ps]

Raised(exc, r, f) == [exc |-> exc, root |-> r, folders |-> f]
Returned(r, f) == [exc |-> "none", root |-> r, folders |-> f]

\* line 41, `self.root = root`: the local variable `root` is stored, whatever
\* self.root was set to before
Assign41(self_root, local_root) == local_root

\* a slip of set_root: the root is stored before it is validated
set_root_eager(self_root, arg) ==
  IF arg.kind = "list"
  THEN [exc |-> IF SelectSeq(arg.items, is_dir) = <<>> THEN "ValueError" ELSE "none",
        root |-> arg]
  ELSE [exc |-> IF is_dir(arg.path) THEN "none" ELSE "ValueError",
        root |-> arg]

\* DataFinder.set_root(root): the exception raised and the root afterwards
set_root(self_root, arg) ==
  IF arg.kind = "list"
  THEN LET valid_roots == SelectSeq(arg.items, is_dir)
       IN IF valid_roots = <<>>
          THEN [exc |-> "ValueError", root |-> self_root]
          ELSE LET after35 == OnePath(valid_roots[1])
               IN [exc |-> "none", root |-> Assign41(after35, arg)]
  ELSE IF ~is_dir(arg.path)
       THEN [exc |-> "ValueError", root |-> self_root]
       ELSE [exc |-> "none", root |-> Assign41(self_root, arg)]

\* a slip of lines 61-72: without the `continue`, a missing folder is
\* appended after its warning
RECURSIVE add_loop_no_continue(_, _, _, _, _)
add_loop_no_continue(self_root, self_folders, paths, i, strict) ==
  IF i > Len(paths) THEN Returned(self_root, self_folders)
  ELSE IF ~is_absolute(paths[i]) /\ self_root.kind = "list"
       THEN Raised("TypeError", self_root, self_folders)
  ELSE LET folder == IF is_absolute(paths[i]) THEN paths[i]
                     ELSE Join(self_root.path, paths[i])
       IN IF ~is_dir(folder) /\ strict
          THEN Raised("ValueError", self_root, self_folders)
          ELSE add_loop_no_continue(self_root, Append(self_folders, folder),
                                    paths, i + 1, strict)

\* the loop of add_folders over folders[i..], lines 56-72
RECURSIVE add_loop(_, _, _, _, _)
add_loop(self_root, self_folders, paths, i, strict) ==
  IF i > Len(paths) THEN Returned(self_root, self_folders)
  ELSE IF ~is_absolute(paths[i]) /\ self_root.kind = "list"
       \* list / Path is not defined
       THEN Raised("TypeError", self_root, self_folders)
  ELSE LET folder == IF is_absolute(paths[i]) THEN paths[i]
                     ELSE Join(self_root.path, paths[i])
       IN IF ~is_dir(folder)
          THEN IF strict
               THEN Raised("ValueError", self_root, self_folders)
               ELSE add_loop(self_root, self_folders, paths, i + 1, strict)
          ELSE add_loop(self_root, Append(self_folders, folder), paths, i + 1, strict)

NoRoot == [kind |-> "none"]

\* DataFinder.add_folders(folders, root, strict)
add_folders(self_root, self_folders, paths, rootarg, strict) ==
  LET sr == IF rootarg.kind = "none"
            THEN [exc |-> "none", root |-> self_root]
            ELSE set_root(self_root, rootarg)
  IN IF sr.exc # "none"
     THEN Raised(sr.exc, sr.root, self_folders)
     ELSE add_loop(sr.root, self_folders, paths, 1, strict)

(***************************************************************************)
(* Inputs.                                                                 *)
(***************************************************************************)
SeqsUpTo(S, n) == UNION {[1..k -> S] : k \in 0..n}

\* roots given as one path: ".", "/d", and "/x", which does not exist
RootCandidates == {Rel(<<>>), Abs(<<"d">>), Abs(<<"x">>)}

\* the candidates of a root given as a list: an existing and a missing
\* directory
ListCandidates == {Abs(<<"d">>), Abs(<<"x">>)}

RootArgs ==
  {OnePath(p) : p \in RootCandidates}
    \cup {PathList(ps) : ps \in SeqsUpTo(ListCandidates, MaxRoots)}

\* folders to register: "s", "x" (missing) and "/o"
FolderInputs == {Rel(<<"s">>), Rel(<<"x">>), Abs(<<"o">>)}

(***************************************************************************)
(* The registry operations as actions.  A call runs to completion in one   *)
(* step; `call` then holds the call with the state it started from and     *)
(* `ret` what it raised or returned, until the caller takes the outcome    *)
(* (Return) and is free to make its next call.                             *)
(***************************************************************************)
NoTable == <<>>

Idle == [op |-> "idle"]

Init ==
  \* DataFinder(): folders=[], root="."
  /\ root = OnePath(Rel(<<>>))
  /\ folders = <<>>
  /\ call = Idle
  /\ ret = [exc |-> "none", rows |-> NoTable]

SetRoot ==
  \E arg \in RootArgs :
    LET r == set_root(root, arg)
    IN /\ call = Idle
       /\ root' = r.root
       /\ UNCHANGED folders
       /\ call' = [op |-> "set_root", root |-> arg,
                   pre_root |-> root, pre_folders |-> folders]
       /\ ret' = [exc |-> r.exc, rows |-> NoTable]

AddFolders ==
  \E paths \in SeqsUpTo(FolderInputs, MaxPaths),
     rootarg \in RootArgs \cup {NoRoot},
     strict \in BOOLEAN :
    LET r == add_folders(root, folders, paths, rootarg, strict)
    IN /\ call = Idle
       /\ Len(r.folders) <= MaxFolders
       /\ root' = r.root
       /\ folders' = r.folders
       /\ call' = [op |-> "add_folders", folders |-> paths, root |-> rootarg,
                   strict |-> strict,
                   pre_root |-> root, pre_folders |-> folders]
       /\ ret' = [exc |-> r.exc, rows |-> NoTable]

\* the caller has the outcome of its last call
Return ==
  /\ call # Idle
  /\ call' = Idle
  /\ ret' = [exc |-> "none", rows |-> NoTable]
  /\ UNCHANGED <<root, folders>>

(***************************************************************************)
(* re.  A pattern is a sequence of characters, "." matching any character, *)
(* optionally wrapped in one named group: (?P<name>pat).                   *)
(***************************************************************************)
Regex(name, pat) == [name |-> name, pat |-> pat]

\* re.match(regex, part) is not None: the pattern matches a prefix of part
re_match(regex, part) ==
  /\ Len(regex.pat) <= Len(part)
  /\ \A k \in 1..Len(regex.pat) : regex.pat[k] = "." \/ regex.pat[k] = part[k]

\* m.groupdict() of a successful match
groupdict(regex, part) ==
  IF regex.name = "" THEN <<>>
  ELSE regex.name :> SubSeq(part, 1, Len(regex.pat))

\* d.update(e) for two dicts as functions
Update(d, e) == e @@ d

(***************************************************************************)
(* Path.rglob: the entries below `folder` whose name matches the pattern,  *)
(* each directory's matching children first, then its subdirectories in    *)
(* listing order.  A pattern is "*" followed by literal characters.        *)
(***************************************************************************)
IsSuffix(t, s) == Len(t) <= Len(s) /\ SubSeq(s, Len(s) - Len(t) + 1, Len(s)) = t

GlobMatch(query, name) == Head(query) = "*" /\ IsSuffix(Tail(query), Spell[name])

Child(folder, name) == Join(folder, Rel(<<name>>))

RECURSIVE rglob(_, _), rglob_subdirs(_, _, _)
rglob(folder, query) ==
  LET kids == Listing[Resolve(folder)]
      here == SelectSeq(kids, LAMBDA k : GlobMatch(query, k))
      subdirs == SelectSeq(kids, LAMBDA k : is_dir(Child(folder, k)))
  IN [k \in 1..Len(here) |-> Child(folder, here[k])]
       \o rglob_subdirs(folder, subdirs, query)
rglob_subdirs(folder, subdirs, query) ==
  IF subdirs = <<>> THEN <<>>
  ELSE rglob(Child(folder, Head(subdirs)), query)
         \o rglob_subdirs(folder, Tail(subdirs), query)

(***************************************************************************)
(* DataFinder.query, lines 85-136: the rows collected, or the exception.   *)
(***************************************************************************)
\* what p.relative_to(self.root) raises
relative_to_exc(p, self_root) ==
  IF self_root.kind = "list" THEN "TypeError"
  ELSE IF CanRelate(p, self_root.path) THEN "none" ELSE "ValueError"

\* a slip of line 109: the raw index is used as it is
effective_index_raw(i, n) == i

\* line 109, `i % len(parts)`: Python's modulo, never negative for n > 0
effective_index(i, n) == i % n

\* line 109: {i % len(parts): reg for (i, reg) in regex_info.items()}
RECURSIVE regex_info_mod(_, _, _)
regex_info_mod(items, n, acc) ==
  IF items = <<>> THEN acc
  ELSE regex_info_mod(Tail(items), n,
                      Update(acc, effective_index(Head(items).key, n)
                                    :> Head(items).val))

\* a slip of lines 115-118: the loop stops at the first label that matches
RECURSIVE classify_break(_, _, _)
classify_break(row, items, part) ==
  IF items = <<>> THEN row
  ELSE IF re_match(Head(items).val, part)
       THEN Update(row, "info" :> Head(items).key)
       ELSE classify_break(row, Tail(items), part)

\* lines 115-118: the loop over the (key, regex) items of a classifier
RECURSIVE classify(_, _, _)
classify(row, items, part) ==
  IF items = <<>> THEN row
  ELSE classify(IF re_match(Head(items).val, part)
                THEN Update(row, "info" :> Head(items).key)
                ELSE row,
                Tail(items), part)

\* a slip of lines 123-125: a failed match excludes the file even when no
\* match is required
keep_after_miss_always(keep, require_match) == FALSE

\* lines 123-125: a single pattern did not match
keep_after_miss(keep, require_match) == IF require_match THEN FALSE ELSE keep

\* lines 110-125: the loop over enumerate(reversed(parts)), from position i
RECURSIVE match_parts(_, _, _, _, _, _)
match_parts(row, keep, parts, mod, i, require_match) ==
  IF i >= Len(parts) THEN [row |-> row, keep |-> keep]
  ELSE LET part == Spell[parts[Len(parts) - i]]
       IN IF i \notin DOMAIN mod
          THEN match_parts(row, keep, parts, mod, i + 1, require_match)
          ELSE IF mod[i].kind = "dict"
          THEN match_parts(classify(row, mod[i].items, part), keep,
                           parts, mod, i + 1, require_match)
          ELSE IF re_match(mod[i].re, part)
          THEN match_parts(Update(row, groupdict(mod[i].re, part)), keep,
                           parts, mod, i + 1, require_match)
          ELSE match_parts(row, keep_after_miss(keep, require_match),
                           parts, mod, i + 1, require_match)

\* lines 103-125 for one file that lies under the root
file_row(file, self_root, regex_info, require_match) ==
  LET row == [filename |-> PathName(file), path |-> file,
              suffix |-> SuffixOf(Spell[PathName(file)])]
      parts == RelativeParts(file, self_root.path)
      mod == regex_info_mod(regex_info, Len(parts), <<>>)
  IN match_parts(row, TRUE, parts, mod, 0, require_match)

\* a slip of lines 98-128: a file that is not under the root is passed over
RECURSIVE query_files_skip(_, _, _, _, _)
query_files_skip(rows, files, self_root, regex_info, require_match) ==
  IF files = <<>> THEN [exc |-> "none", rows |-> rows]
  ELSE IF relative_to_exc(Head(files), self_root) # "none"
       THEN query_files_skip(rows, Tail(files), self_root, regex_info,
                             require_match)
  ELSE LET r == file_row(Head(files), self_root, regex_info, require_match)
       IN query_files_skip(IF r.keep THEN Append(rows, r.row) ELSE rows,
                           Tail(files), self_root, regex_info, require_match)

\* lines 98-128: the loop over the files of one folder
RECURSIVE query_files(_, _, _, _, _)
query_files(rows, files, self_root, regex_info, require_match) ==
  IF files = <<>> THEN [exc |-> "none", rows |-> rows]
  ELSE IF relative_to_exc(Head(files), self_root) # "none"
       THEN [exc |-> relative_to_exc(Head(files), self_root), rows |-> rows]
  ELSE LET r == file_row(Head(files), self_root, regex_info, require_match)
       IN query_files(IF r.keep THEN Append(rows, r.row) ELSE rows,
                      Tail(files), self_root, regex_info, require_match)

\* lines 91-128: the loop over self.folders
RECURSIVE query_folders(_, _, _, _, _, _, _)
query_folders(rows, fs, self_root, query, regex_info, require_match, verbose) ==
  IF fs = <<>> THEN [exc |-> "none", rows |-> rows]
  ELSE IF verbose /\ relative_to_exc(Head(fs), self_root) # "none"
       \* line 94
       THEN [exc |-> relative_to_exc(Head(fs), self_root), rows |-> rows]
  ELSE LET r == query_files(rows, rglob(Head(fs), query), self_root,
                            regex_info, require_match)
       IN IF r.exc # "none" THEN r
          ELSE query_folders(r.rows, Tail(fs), self_root, query, regex_info,
                             require_match, verbose)

(***************************************************************************)
(* pandas.  A DataFrame is its rows in order, each with its index label.   *)
(***************************************************************************)
DataFrame(rows) == [k \in 1..Len(rows) |-> [index |-> k - 1, row |-> rows[k]]]

FilenameLess(a, b) == StrLess(Spell[a.row.filename], Spell[b.row.filename])

\* the orders of the positions S of df that sort it by filename
RECURSIVE SortedOrders(_, _)
SortedOrders(df, S) ==
  IF S = {} THEN {<<>>}
  ELSE LET least == {i \in S : \A j \in S : ~FilenameLess(df[j], df[i])}
       IN UNION {{<<i>> \o t : t \in SortedOrders(df, S \ {i})} : i \in least}

\* a slip of line 143: the rows are left in the order they were found
sort_values_skipped(df) == {df}

\* df.sort_values(by="filename"): kind defaults to "quicksort", which does
\* not promise to keep rows of equal filename in their order, so every
\* arrangement in non-decreasing order of filename is a possible outcome
sort_values(df) ==
  {[k \in 1..Len(df) |-> df[o[k]]] : o \in SortedOrders(df, 1..Len(df))}

\* df.reset_index(drop=True)
reset_index(df) == [k \in 1..Len(df) |-> [index |-> k - 1, row |-> df[k].row]]

\* lines 138-145: the tables query may return for the collected rows
query_tables(rows) ==
  IF Len(rows) = 0 THEN {<<>>}
  ELSE {reset_index(df) : df \in sort_values(DataFrame(rows))}

(***************************************************************************)
(* Inputs of query.                                                        *)
(***************************************************************************)
Globs == {<<"*">>, <<"*", ".", "t">>}

\* (?P<g>A) and (?P<h>.B)
RA == Regex("g", <<"A">>)
RB == Regex("h", <<".", "B">>)

Pattern(re) == [kind |-> "pattern", re |-> re]
Classifier(items) == [kind |-> "dict", items |-> items]
Item(k, v) == [key |-> k, val |-> v]

\* sequences without a repeated key, as the items of a dict are
DistinctKeys(items) ==
  \A a, b \in 1..Len(items) : items[a].key = items[b].key => a = b

ClassifierItems == {Item("la", RA), Item("lb", RB)}

\* the dicts of both labels, in either order
Classifiers ==
  {Classifier(items) : items \in
     {c \in [1..Cardinality(ClassifierItems) -> ClassifierItems] : DistinctKeys(c)}}

RegexEntries == {Pattern(RA)} \cup Classifiers

RawIndices == {-1, 0, 3}

RegexInfos ==
  {m \in SeqsUpTo({Item(i, e) : i \in RawIndices, e \in RegexEntries}, MaxMap) :
     DistinctKeys(m)}

Query ==
  \E query \in Globs, regex_info \in RegexInfos,
     require_match \in BOOLEAN, verbose \in BOOLEAN :
    LET r == query_folders(<<>>, folders, root, query, regex_info,
                           require_match, verbose)
    IN /\ call = Idle
       /\ call' = [op |-> "query", query |-> query, regex_info |-> regex_info,
                   require_match |-> require_match, verbose |-> verbose]
       /\ IF r.exc # "none"
          THEN ret' = [exc |-> r.exc, rows |-> NoTable]
          ELSE \E table \in query_tables(r.rows) :
                 ret' = [exc |-> "none", rows |-> table]
       /\ UNCHANGED <<root, folders>>

RegistryNext == SetRoot \/ AddFolders \/ Return

RegistrySpec == Init /\ [][RegistryNext]_vars

Next == SetRoot \/ AddFolders \/ Query \/ Return

Spec == Init /\ [][Next]_vars

(***************************************************************************)
(* Properties of set_root and add_folders.                                 *)
(***************************************************************************)
\* the first element of a list of candidates that is an existing directory
HasValid(items) == \E k \in 1..Len(items) : is_dir(items[k])
FirstValid(items) ==
  items[CHOOSE k \in 1..Len(items) :
          is_dir(items[k]) /\ \A j \in 1..(k - 1) : ~is_dir(items[j])]

\* a root argument passes the validation of configure root
RootArgValid(arg) ==
  IF arg.kind = "list" THEN HasValid(arg.items) ELSE is_dir(arg.path)

\* the root that configure root is specified to store for a valid argument
IntendedRoot(arg) ==
  IF arg.kind = "list" THEN OnePath(FirstValid(arg.items)) ELSE arg

\* the root add_folders resolves relative folders against, as specified:
\* the one just configured, else the one stored
RootInEffect ==
  IF call.root.kind = "none" THEN IntendedRoot(call.pre_root)
  ELSE IntendedRoot(call.root)

\* a folder argument resolved against a root: absolute as given, else joined
ResolvedAgainst(r, f) ==
  IF f.abs THEN f ELSE [abs |-> r.abs, parts |-> r.parts \o f.parts]

Resolved(paths, r) == [k \in 1..Len(paths) |-> ResolvedAgainst(r, paths[k])]

\* the index of the first entry that does not resolve to an existing
\* directory, 0 when every entry does
FirstMissing(paths, r) ==
  IF \A k \in 1..Len(paths) : is_dir(ResolvedAgainst(r, paths[k])) THEN 0
  ELSE CHOOSE k \in 1..Len(paths) :
         /\ ~is_dir(ResolvedAgainst(r, paths[k]))
         /\ \A j \in 1..(k - 1) : is_dir(ResolvedAgainst(r, paths[j]))

\* C1: set_root called with a list of candidates stores the first candidate,
\* in input order, that is an existing directory (one path, not the list),
\* and raises the configuration error when no candidate is one.
C1_FirstValidRootStored ==
  (call.op = "set_root" /\ call.root.kind = "list") =>
    IF HasValid(call.root.items)
    THEN ret.exc = "none" /\ root = OnePath(FirstValid(call.root.items))
    ELSE ret.exc = "ValueError"

\* C2: add_folders with strict=True on a list whose k-th entry is the first
\* that does not resolve to an existing directory raises the configuration
\* error and leaves the folder list as it was, followed by the resolved
\* entries 1..k-1 in order.
C2_StrictStopsAtFirstMissing ==
  (/\ call.op = "add_folders"
   /\ call.strict
   /\ call.root.kind # "none" => RootArgValid(call.root)
   /\ FirstMissing(call.folders, RootInEffect.path) > 0) =>
    LET k == FirstMissing(call.folders, RootInEffect.path)
    IN /\ ret.exc = "ValueError"
       /\ folders = call.pre_folders
                      \o SubSeq(Resolved(call.folders, RootInEffect.path), 1, k - 1)

\* the entries of a folder argument that resolve to an existing directory
ExistingOf(paths, r) == SelectSeq(Resolved(paths, r), is_dir)

\* add_folders(F, root=R, strict=False) with R one existing directory
NonStrictWithRoot ==
  /\ call.op = "add_folders"
  /\ ~call.strict
  /\ call.root.kind = "path"
  /\ is_dir(call.root.path)

\* C3, as amended: add_folders(F, root=R, strict=False) with R one existing
\* directory never raises and appends, in order, exactly the entries that
\* resolve (R joined with a relative entry, an absolute entry as given) to an
\* existing directory; every entry of the folder list is an existing
\* directory at all times, and the appended entries are absolute when R is
\* absolute (a relative R joined with a relative entry stays relative).
C3_NonStrictKeepsExistingOnly ==
  /\ \A k \in 1..Len(folders) : is_dir(folders[k])
  /\ NonStrictWithRoot =>
       /\ ret.exc = "none"
       /\ folders = call.pre_folders \o ExistingOf(call.folders, call.root.path)
       /\ \A k \in (Len(call.pre_folders) + 1)..Len(folders) :
            folders[k].abs \/ ~call.root.path.abs

\* C3 as claimed: the same call never raises and afterwards every entry of
\* the folder list is an absolute path of an existing directory.
C3_EntriesAbsolute ==
  NonStrictWithRoot =>
    /\ ret.exc = "none"
    /\ \A k \in 1..Len(folders) : folders[k].abs /\ is_dir(folders[k])

\* a non-strict call with a relative root dropped a missing entry and
\* appended an existing one
C3_Witness ==
  /\ NonStrictWithRoot
  /\ \E k \in 1..Len(call.folders) :
       ~is_dir(ResolvedAgainst(call.root.path, call.folders[k]))
  /\ Len(folders) > Len(call.pre_folders)
  /\ Len(call.pre_folders) > 0

\* the root argument of the last call failed validation
RootArgRejected ==
  \/ call.op = "set_root" /\ ~RootArgValid(call.root)
  \/ /\ call.op = "add_folders"
     /\ call.root.kind # "none"
     /\ ~RootArgValid(call.root)

\* C8: a set_root call that fails, and an add_folders call whose root
\* argument fails validation, raise the configuration error and leave the
\* stored root and the folder list exactly as they were.
C8_FailedRootLeavesState ==
  RootArgRejected =>
    /\ ret.exc = "ValueError"
    /\ root = call.pre_root
    /\ folders = call.pre_folders

\* an add_folders call with a rejected list of roots and an existing folder
\* to add, on a registry that already has a folder
C8_Witness ==
  /\ RootArgRejected
  /\ call.op = "add_folders"
  /\ call.root.kind = "list"
  /\ call.root.items # <<>>
  /\ \E k \in 1..Len(call.folders) : call.folders[k].abs /\ is_dir(call.folders[k])
  /\ call.pre_folders # <<>>

(***************************************************************************)
(* Properties of query.                                                    *)
(***************************************************************************)
\* the last call was a query that returned a table
QueryReturned == call.op = "query" /\ ret.exc = "none"

\* the files the glob finds, folder by folder in registration order
RECURSIVE FoundIn(_, _)
FoundIn(fs, query) ==
  IF fs = <<>> THEN <<>> ELSE rglob(Head(fs), query) \o FoundIn(Tail(fs), query)

Found == FoundIn(folders, call.query)

Range(f) == {f[k] : k \in DOMAIN f}

Occurrences(f, x) == Cardinality({k \in DOMAIN f : f[k] = x})

\* i modulo n as Python defines it: the r in 0..n-1 with i = q*n + r
PyMod(i, n) == CHOOSE r \in 0..(n - 1) : \E q \in -4..4 : i = q * n + r

\* the segments of a file's path relative to the root, and the one at a
\* position counted from the filename
Segments(file) == RelativeParts(file, root.path)
SegmentAt(file, pos) == Spell[Segments(file)[Len(Segments(file)) - pos]]

\* the position an entry of the map addresses in a file
PositionOf(item, file) == PyMod(item.key, Len(Segments(file)))

\* the entries of the map that apply to a file: those no later entry
\* addresses the same position as
Effective(file) ==
  {k \in 1..Len(call.regex_info) :
     \A j \in (k + 1)..Len(call.regex_info) :
       PositionOf(call.regex_info[j], file) # PositionOf(call.regex_info[k], file)}

\* every single-pattern entry that applies to the file matches its segment
AllPatternsMatch(file) ==
  \A k \in Effective(file) :
    call.regex_info[k].val.kind = "pattern" =>
      re_match(call.regex_info[k].val.re,
               SegmentAt(file, PositionOf(call.regex_info[k], file)))

RowPaths == [k \in DOMAIN ret.rows |-> ret.rows[k].row.path]

\* C4: a file found by the glob produces a row of the returned table if and
\* only if require_match is false or every single-pattern entry of its
\* effective map matches the segment at its position; classifier entries
\* never exclude a row.
C4_KeptIffPatternsMatch ==
  QueryReturned =>
    /\ Range(RowPaths) \subseteq Range(Found)
    /\ \A file \in Range(Found) :
         Occurrences(RowPaths, file) =
           IF ~call.require_match \/ AllPatternsMatch(file)
           THEN Occurrences(Found, file) ELSE 0

\* a classifier applies to the file at a segment none of its patterns match
UnmatchedClassifier(file) ==
  \E k \in Effective(file) :
    /\ call.regex_info[k].val.kind = "dict"
    /\ \A j \in DOMAIN call.regex_info[k].val.items :
         ~re_match(call.regex_info[k].val.items[j].val,
                   SegmentAt(file, PositionOf(call.regex_info[k], file)))

\* with require_match, one found file is excluded by a pattern and another
\* is kept although a classifier matched none of its labels
C4_Witness ==
  /\ QueryReturned
  /\ call.require_match
  /\ \E file \in Range(Found) : ~AllPatternsMatch(file)
  /\ \E file \in Range(RowPaths) : UnmatchedClassifier(file)

\* the (position, label index) pairs of the classifier labels that match
\* the file's segments
LabelMatches(file) ==
  {m \in (0..(Len(Segments(file)) - 1)) \X (1..Cardinality(ClassifierItems)) :
     \E k \in Effective(file) :
       /\ call.regex_info[k].val.kind = "dict"
       /\ PositionOf(call.regex_info[k], file) = m[1]
       /\ m[2] \in DOMAIN call.regex_info[k].val.items
       /\ re_match(call.regex_info[k].val.items[m[2]].val, SegmentAt(file, m[1]))}

LabelAt(file, m) ==
  LET k == CHOOSE k \in Effective(file) :
             PositionOf(call.regex_info[k], file) = m[1]
  IN call.regex_info[k].val.items[m[2]].key

\* the outermost classifier position with a matching label
LastPosition(file) ==
  CHOOSE p \in {m[1] : m \in LabelMatches(file)} :
    \A m \in LabelMatches(file) : m[1] <= p

LabelsAtLast(file) == {m \in LabelMatches(file) : m[1] = LastPosition(file)}

FirstLabel(file) ==
  LabelAt(file, CHOOSE m \in LabelsAtLast(file) :
                  \A o \in LabelsAtLast(file) : m[2] <= o[2])

LastLabel(file) ==
  LabelAt(file, CHOOSE m \in LabelsAtLast(file) :
                  \A o \in LabelsAtLast(file) : o[2] <= m[2])

\* C5, as amended: every (label, pattern) pair of a classifier position is
\* tried, in mapping order and without stopping at a match, so info is the
\* label of the LAST pattern that matches the segment; when none matches,
\* the position does not set info.
C5_LastMatchingLabel ==
  QueryReturned =>
    \A k \in DOMAIN ret.rows :
      LET row == ret.rows[k].row
      IN IF LabelMatches(row.path) = {}
         THEN "info" \notin DOMAIN row
         ELSE "info" \in DOMAIN row /\ row["info"] = LastLabel(row.path)

\* C5 as claimed: info is the label of the FIRST pattern, in mapping order,
\* that matches the segment, and no further label is tried; when none
\* matches, the position does not set info.
C5_FirstMatchingLabel ==
  QueryReturned =>
    \A k \in DOMAIN ret.rows :
      LET row == ret.rows[k].row
      IN IF LabelMatches(row.path) = {}
         THEN "info" \notin DOMAIN row
         ELSE "info" \in DOMAIN row /\ row["info"] = FirstLabel(row.path)

\* a returned row whose classifier had two matching labels, and another
\* whose classifier had none
C5_Witness ==
  /\ QueryReturned
  /\ \E k \in DOMAIN ret.rows :
       /\ Cardinality(LabelsAtLast(ret.rows[k].row.path)) = 2
       /\ ret.rows[k].row["info"] = LastLabel(ret.rows[k].row.path)
       /\ FirstLabel(ret.rows[k].row.path) # LastLabel(ret.rows[k].row.path)
  /\ \E k \in DOMAIN ret.rows : UnmatchedClassifier(ret.rows[k].row.path)

\* the rows query collected before sorting, in the order they were found
Collected ==
  query_folders(<<>>, folders, root, call.query, call.regex_info,
                call.require_match, call.verbose).rows

RowsOf(df) == [k \in DOMAIN df |-> df[k].row]

NameLess(a, b) == StrLess(Spell[a.filename], Spell[b.filename])

\* the rows in non-decreasing order of filename, rows of equal filename in
\* the order they were found: insertion of each row after its equals
RECURSIVE StableInsert(_, _)
StableInsert(sorted, row) ==
  IF sorted = <<>> THEN <<row>>
  ELSE IF NameLess(row, Head(sorted)) THEN <<row>> \o sorted
  ELSE <<Head(sorted)>> \o StableInsert(Tail(sorted), row)

RECURSIVE StableSorted(_, _)
StableSorted(sorted, rows) ==
  IF rows = <<>> THEN sorted
  ELSE StableSorted(StableInsert(sorted, Head(rows)), Tail(rows))

\* C6, as amended: the returned rows are the kept rows in non-decreasing
\* order of filename, with the row index 0..n-1 in that order; the order of
\* rows of equal filename among themselves is not determined.
C6_SortedByFilename ==
  QueryReturned =>
    /\ \A k \in 1..(Len(ret.rows) - 1) :
         ~NameLess(ret.rows[k + 1].row, ret.rows[k].row)
    /\ \A k \in DOMAIN ret.rows : ret.rows[k].index = k - 1
    /\ Len(ret.rows) = Len(Collected)
    /\ \A row \in Range(Collected) :
         Occurrences(RowsOf(ret.rows), row) = Occurrences(Collected, row)

\* C6 as claimed: the returned rows are in non-decreasing order of filename,
\* rows of equal filename in the order they were found, with the row index
\* 0..n-1 in that order.
C6_StableOrder ==
  QueryReturned =>
    /\ RowsOf(ret.rows) = StableSorted(<<>>, Collected)
    /\ \A k \in DOMAIN ret.rows : ret.rows[k].index = k - 1

\* a returned table with two different rows of equal filename, whose rows
\* were not found in sorted order
C6_Witness ==
  /\ QueryReturned
  /\ \E a, b \in DOMAIN ret.rows :
       /\ ret.rows[a].row.filename = ret.rows[b].row.filename
       /\ ret.rows[a].row.path # ret.rows[b].row.path
  /\ \E k \in 1..(Len(Collected) - 1) : NameLess(Collected[k + 1], Collected[k])

\* C7: query with verbose=True and with verbose=False have the same
\* outcome: both fail, or both can return the same tables.
C7_VerboseSameOutcome ==
  call.op = "query" =>
    LET other == query_folders(<<>>, folders, root, call.query, call.regex_info,
                               call.require_match, ~call.verbose)
    IN /\ (ret.exc = "none") <=> (other.exc = "none")
       /\ ret.exc = "none" => ret.rows \in query_tables(other.rows)

\* the map with each key replaced by the position it addresses in a path of
\* n segments, without the entries a later entry addresses the same
\* position as
Normalized(regex_info, n) ==
  LET placed == [k \in DOMAIN regex_info |->
                   [key |-> PyMod(regex_info[k].key, n),
                    val |-> regex_info[k].val, at |-> k]]
  IN SelectSeq(placed, LAMBDA t :
       \A j \in (t.at + 1)..Len(placed) : placed[j].key # t.key)

NormalizedRow(file) ==
  file_row(file, root,
           Normalized(call.regex_info, Len(Segments(file))), call.require_match)

\* C9: the map is normalized for each file: a raw index i addresses the
\* position i modulo the number of segments of that file, and of two raw
\* indices that address the same position only the later entry applies; so
\* the rows returned are those of the map with normalized, distinct keys.
C9_IndicesModuloSegments ==
  QueryReturned =>
    /\ \A k \in DOMAIN ret.rows :
         /\ NormalizedRow(ret.rows[k].row.path).keep
         /\ ret.rows[k].row = NormalizedRow(ret.rows[k].row.path).row
    /\ \A file \in Range(Found) :
         NormalizedRow(file).keep => file \in Range(RowPaths)

\* the entry of the normalized map at a position
EntryAt(file, pos) ==
  LET n == Normalized(call.regex_info, Len(Segments(file)))
  IN n[CHOOSE k \in DOMAIN n : n[k].key = pos].val

\* a returned row of 3 segments under a map with the keys 0, then 3, whose
\* entry of key 3 is applied to the filename and that of key 0 is not
C9_Witness ==
  /\ QueryReturned
  /\ Len(call.regex_info) = 2
  /\ call.regex_info[1].key = 0
  /\ call.regex_info[2].key = 3
  /\ call.regex_info[1].val # call.regex_info[2].val
  /\ \E k \in DOMAIN ret.rows :
       /\ Len(Segments(ret.rows[k].row.path)) = 3
       /\ EntryAt(ret.rows[k].row.path, 0) = call.regex_info[2].val
       /\ "g" \in DOMAIN ret.rows[k].row
       /\ "info" \notin DOMAIN ret.rows[k].row

\* a path lies under the stored root
UnderRoot(p) ==
  /\ root.kind = "path"
  /\ p.abs = root.path.abs
  /\ IsPrefix(root.path.parts, p.parts)

\* a registered folder is not under the root and the glob finds a file in it
FindsOutsideRoot ==
  \E k \in DOMAIN folders :
    ~UnderRoot(folders[k]) /\ rglob(folders[k], call.query) # <<>>

====
